---- MODULE Spec2Model ----
(***************************************************************************)
(* PuzzleVQA: evaluate_multi_choice (main.py) driving the model backends   *)
(* of modeling.py.  Text is modelled as a sequence of tokens, so that the  *)
(* empty string is <<>>, "x in text" is a membership test on the tokens    *)
(* and str()/f-strings are concatenations.                                 *)
(***************************************************************************)
EXTENDS Naturals, Sequences, FiniteSets, TLC

VARIABLES
    pc,                        \* position in evaluate_multi_choice
    model_name,                \* kwargs["model_name"]
    prevent_direct_answer,     \* argument of evaluate_multi_choice
    use_describe_image_prompt, \* argument of evaluate_multi_choice
    given,                     \* the toggles the caller passed explicitly
    prompter,                  \* prompter.base_prompter's two toggles
    model,                     \* the backend object: its class and its client
    data,                      \* data.samples
    idx,                       \* index of the sample of the loop (0 before it)
    is_correct,                \* the list is_correct
    score,                     \* the running accuracy <<sum, len>> of line 67
    saved,                     \* the file last written by data.save
    saves,                     \* how many times data.save has run
    error,                     \* the exception that ended the program, if any
    rpc,                       \* position in model.run
    args,                      \* the arguments of the model.run in progress
    output,                    \* the local `output` of model.run
    calls,                     \* backend calls made by the model.run in progress
    last,                      \* what the backend did on the latest of them
    loads,                     \* how many times a credential/weights source was read
    clients,                   \* how many client objects were constructed
    invocations,               \* model.run calls made for the current sample
    log,                       \* the completed model.run calls of the sample being evaluated
    src_image,                 \* the argument of resize_image
    max_image_size,            \* EvalModel.max_image_size
    resized,                   \* what resize_image returned
    few_shot                   \* the OpenAIModel.run_few_shot in progress

vars == <<pc, model_name, prevent_direct_answer, use_describe_image_prompt,
          given, prompter, model, data, idx, is_correct, score, saved, saves,
          error, rpc, args, output, calls, last, loads, clients, invocations,
          log, src_image, max_image_size, resized, few_shot>>

\* what evaluate_multi_choice never touches
fixed == <<given, src_image, max_image_size, resized, few_shot>>
orch == <<data, idx, is_correct, score, saved, saves, invocations, log>>
conf == <<model_name, prevent_direct_answer, use_describe_image_prompt, prompter,
          fixed>>

----------------------------------------------------------------------------
(* Bounds *)

NumSamples == 2      \* samples in the dataset
MaxAttempts == 3     \* backend calls explored inside one model.run
MaxDim == 6          \* largest width and height of an image given to resize_image
MaxSize == 4         \* largest max_image_size
MaxShots == 2        \* most (prompt, image) pairs given to run_few_shot

----------------------------------------------------------------------------
(* Text *)

Contains(text, tok) == \E i \in DOMAIN text : text[i] = tok

SeqToSet(s) == {s[i] : i \in DOMAIN s}

\* the answers a backend can give: nothing, an answer naming option B,
\* and free text naming no option
Texts == {<<>>, <<"so", "B">>, <<"unsure">>}

Options == <<"A", "B">>

error_message == "The response was filtered"

EmptyPartsMessage == <<"Empty response.parts from gemini">>


----------------------------------------------------------------------------
(* What a backend call can do.  exc is the message of the exception the    *)
(* call raised (<<>>: it returned a response); flag is the response's      *)
(* finish_reason (OpenAI), block_reason (Gemini) or stop_reason (Claude);  *)
(* parts tells whether the response carries any part/content block; text   *)
(* is the text of the response.                                            *)

Exc(msg) == [exc |-> msg, flag |-> "", parts |-> FALSE, text |-> <<>>]

Resp(flag, parts, text) == [exc |-> <<>>, flag |-> flag, parts |-> parts, text |-> text]

TimeoutMsg == <<"Connection", "timed out">>

\* the service refuses the prompt with an error whose text carries the marker
FilterExcMsg == <<"Error code: 400 -", error_message, "due to content policy">>

GeminiOutcomes ==
    {Exc(TimeoutMsg)}
        \cup {Resp("", TRUE, t) : t \in Texts}
        \cup {Resp("", FALSE, <<>>)}
        \cup {Resp(b, FALSE, <<>>) : b \in {"SAFETY", "OTHER"}}

OpenAIOutcomes ==
    {Exc(TimeoutMsg), Exc(FilterExcMsg)}
        \cup {Resp("stop", TRUE, t) : t \in Texts}
        \cup {Resp("content_filter", TRUE, t) : t \in {<<>>, <<"so", "B">>}}

ClaudeOutcomes ==
    {Exc(TimeoutMsg), Exc(FilterExcMsg)}
        \cup {Resp("end_turn", TRUE, t) : t \in Texts}
        \cup {Resp("end_turn", FALSE, <<>>)}

LlavaOutcomes ==
    {Exc(<<"CUDA out of memory">>)} \cup {Resp("", TRUE, t) : t \in Texts}

\* the backend's signal that its safety filter blocked the response: a
\* block_reason (Gemini), finish_reason content_filter or the service's
\* error (OpenAI), the service's error (Claude)
Blocked(cls, o) ==
    CASE cls = "GeminiVisionModel" -> o.exc = <<>> /\ o.flag \in {"SAFETY", "OTHER"}
      [] cls = "OpenAIVisionModel" -> o.flag = "content_filter" \/ o.exc = FilterExcMsg
      [] cls = "ClaudeModel" -> o.exc = FilterExcMsg
      [] OTHER -> FALSE

----------------------------------------------------------------------------
(* modeling.py: one pass of each run's `while not output` body, as the     *)
(* value `output` has after it                                             *)

\* str(vars(response)) of a Gemini response
ResponseVars(o) ==
    <<"GenerateContentResponse">>
        \o (IF o.flag # "" THEN <<"block_reason", o.flag>> ELSE <<>>)
        \o (IF o.parts THEN o.text ELSE <<>>)

\* the except clause of OpenAIModel.run and ClaudeModel.run
FilteredOrRetry(msg) ==
    IF Contains(msg, error_message) THEN <<error_message>> ELSE <<>>

\* OpenAIModel.run giving up on an exception: output = str(e)
OpenAIAttempt_GiveUp(o) ==
    IF o.exc # <<>> THEN o.exc
    ELSE IF o.flag = "content_filter" THEN FilteredOrRetry(<<error_message>>)
    ELSE o.text

\* OpenAIModel.run without the finish_reason test of line 116
OpenAIAttempt_NoFilter(o) ==
    IF o.exc # <<>> THEN FilteredOrRetry(o.exc) ELSE o.text

\* OpenAIModel.run with output = str(content): a None content becomes "None"
OpenAIAttempt_StrNone(o) ==
    IF o.exc # <<>> THEN FilteredOrRetry(o.exc)
    ELSE IF o.flag = "content_filter" THEN FilteredOrRetry(<<error_message>>)
    ELSE IF o.text = <<>> THEN <<"None">>
    ELSE o.text

GeminiAttempt(o) ==
    IF o.exc # <<>> THEN <<>>
    ELSE IF Contains(ResponseVars(o), "block_reason") THEN ResponseVars(o)
    ELSE IF ~o.parts THEN EmptyPartsMessage
    ELSE o.text

OpenAIAttempt(o) ==
    IF o.exc # <<>> THEN FilteredOrRetry(o.exc)
    ELSE IF o.flag = "content_filter" THEN FilteredOrRetry(<<error_message>>)
    ELSE o.text

\* image 0 is None: resize_image(None) raises inside the try
ClaudeAttempt(o, image) ==
    IF image = 0 THEN FilteredOrRetry(<<"'NoneType' object has no attribute 'size'">>)
    ELSE IF o.exc # <<>> THEN FilteredOrRetry(o.exc)
    ELSE IF ~o.parts THEN FilteredOrRetry(<<"list index out of range">>)
    ELSE o.text

\* select_model falling back to a default class: model_map.get(name, GeminiVisionModel)
select_model_Default(name) ==
    CASE name = "openai_vision" -> "OpenAIVisionModel"
      [] name = "llava" -> "LlavaModel"
      [] name = "claude" -> "ClaudeModel"
      [] OTHER -> "GeminiVisionModel"

select_model(name) ==
    CASE name = "gemini_vision" -> "GeminiVisionModel"
      [] name = "openai_vision" -> "OpenAIVisionModel"
      [] name = "llava" -> "LlavaModel"
      [] name = "claude" -> "ClaudeModel"
      [] OTHER -> "None"

model_map_keys == <<"gemini_vision", "openai_vision", "llava", "claude">>

\* the message of the ValueError of select_model
select_model_error(name) == <<name, ". Choose from">> \o model_map_keys

\* whether load() reads its source and builds a client on this call
GeminiLoads(client) == client = 0
OpenAILoads(client) == TRUE
LlavaLoads(client) == client = 0
ClaudeLoads(client) == TRUE

----------------------------------------------------------------------------
(* main.py and the collaborators it calls                                  *)

Sample(i, answer) ==
    [options |-> Options, answer |-> answer, image |-> i,
     prompt |-> <<>>, raw_output |-> <<>>, pred |-> ""]

DataSets ==
    {[i \in 1..NumSamples |-> Sample(i, f[i])] :
        f \in [1..NumSamples -> SeqToSet(Options)]}

InvalidLabel == ""

\* prompter.get_answer: the first option label the text names
get_answer(text, options) ==
    IF \E i \in DOMAIN text : text[i] \in SeqToSet(options)
    THEN text[CHOOSE i \in DOMAIN text :
                /\ text[i] \in SeqToSet(options)
                /\ \A j \in 1..(i - 1) : text[j] \notin SeqToSet(options)]
    ELSE InvalidLabel

\* prompter.base_prompter.run
BasePrompt(sample, p) ==
    <<"question">>
        \o (IF p.prevent_direct_answer THEN <<"do not answer directly">> ELSE <<>>)
        \o (IF p.use_describe_image_prompt THEN <<"describe the image">> ELSE <<>>)

\* prompter.run: the extraction prompt, built from the sample's raw output
ExtractPrompt(sample) == <<"extract the answer from">> \o sample.raw_output

\* ExactScorer.run with `sample.pred in sample.answer`: "" is in every string
ExactScorer_Substring(sample) ==
    IF sample.pred = sample.answer \/ sample.pred = "" THEN 1 ELSE 0

\* ExactScorer.run
ExactScorer(sample) == IF sample.pred = sample.answer THEN 1 ELSE 0

\* line 60 as `while sample.pred not in sample.options`
AfterParse_While(stage, sample) ==
    IF sample.pred \notin SeqToSet(sample.options) THEN "extract" ELSE "score"

\* the loop body without the test of line 60
AfterParse_NoExtract(stage, sample) == "score"

\* where the loop body goes after the parse of stage 1 or 2
AfterParse(stage, sample) ==
    IF stage = 1 /\ sample.pred \notin SeqToSet(sample.options)
    THEN "extract" ELSE "score"

\* line 67 summing the list as it was before the append of line 66
Sum_Stale(s) == Cardinality({i \in DOMAIN s : s[i] = 1 /\ i < Len(s)})

\* sum(is_correct), line 67
Sum(s) == Cardinality({i \in DOMAIN s : s[i] = 1})

\* a loop that does not advance past a sample
NextIndex_Same(i) == IF i = 0 THEN 1 ELSE i

\* `for sample in progress`: the sample after the i-th
NextIndex(i) == i + 1

\* data.save dedented out of the loop body
AfterScore_NoSave == "loop"

\* what follows the scoring of a sample: data.save, inside the loop (line 71)
AfterScore == "save"

----------------------------------------------------------------------------
(* State after the command line is read                                    *)

ModelNames == {"gemini_vision", "openai_vision", "llava", "claude", "gpt4"}

NoError == [type |-> "", msg |-> <<>>, at |-> ""]

NoArgs == [prompt |-> <<>>, image |-> 0]

NoOutcome == [exc |-> <<>>, flag |-> "no call", parts |-> FALSE, text |-> <<>>]

ToggleNames == {"prevent_direct_answer", "use_describe_image_prompt"}

NoImage == [id |-> 0, size |-> <<0, 0>>, mode |-> ""]

NoFewShot ==
    [rpc |-> "idle", prompts |-> <<>>, images |-> <<>>, vision |-> FALSE,
     content |-> <<>>, output |-> <<>>, calls |-> 0]

\* every variable but pc, model_name and the toggles, before anything ran
Blank ==
    /\ prompter = [prevent_direct_answer |-> TRUE, use_describe_image_prompt |-> TRUE]
    /\ model = [cls |-> "None", client |-> 0]
    /\ data = <<>>
    /\ idx = 0
    /\ is_correct = <<>>
    /\ score = <<0, 0>>
    /\ saved = <<>>
    /\ saves = 0
    /\ error = NoError
    /\ output = <<>>
    /\ calls = 0
    /\ last = NoOutcome
    /\ loads = 0
    /\ clients = 0
    /\ invocations = 0
    /\ log = <<>>
    /\ resized = NoImage

\* evaluate_multi_choice is called with model_name among `names`, the caller
\* passing the toggles of one of `givens`; a toggle not passed has its default
\* (lines 29-30)
Started(names, givens) ==
    /\ pc = "start"
    /\ model_name \in names
    /\ given \in givens
    /\ prevent_direct_answer \in
         (IF "prevent_direct_answer" \in given THEN BOOLEAN ELSE {FALSE})
    /\ use_describe_image_prompt \in
         (IF "use_describe_image_prompt" \in given THEN BOOLEAN ELSE {TRUE})
    /\ Blank
    /\ rpc = "idle"
    /\ args = NoArgs
    /\ src_image = NoImage
    /\ max_image_size = 0
    /\ few_shot = NoFewShot

\* every model name, the toggles left at their defaults (lines 29-30)
Init == Started(ModelNames, {{}})

----------------------------------------------------------------------------
(* evaluate_multi_choice, up to the loop                                   *)

\* lines 33-43: Data.load_with_image_dir, select_prompter, ExactScorer()
Setup ==
    /\ pc = "start"
    /\ \E d \in DataSets : data' = d
    /\ is_correct' = <<>>
    /\ pc' = "select_model"
    /\ UNCHANGED <<conf, model, idx, score, saved, saves, error, rpc, args, output, calls, last, loads, clients, invocations, log>>

\* line 44: model = select_model(**kwargs)
SelectModel ==
    /\ pc = "select_model"
    /\ IF select_model(model_name) = "None"
       THEN /\ pc' = "crashed"
            /\ error' = [type |-> "ValueError",
                         msg |-> select_model_error(model_name),
                         at |-> "select_model"]
            /\ model' = model
       ELSE /\ pc' = "toggles"
            /\ model' = [cls |-> select_model(model_name), client |-> 0]
            /\ error' = error
    /\ UNCHANGED <<conf, orch, rpc, args, output, calls, last, loads, clients>>

\* `if arg:` for `if not arg:` in lines 47 and 49
Toggled_Inverted(arg, current) == IF arg THEN FALSE ELSE current

\* lines 47-50: `if not arg: toggle = False`
Toggled(arg, current) == IF ~arg THEN FALSE ELSE current

\* lines 47-50
SetToggles ==
    /\ pc = "toggles"
    /\ prompter' =
         [prevent_direct_answer |->
              Toggled(prevent_direct_answer, prompter.prevent_direct_answer),
          use_describe_image_prompt |->
              Toggled(use_describe_image_prompt, prompter.use_describe_image_prompt)]
    /\ pc' = "loop"
    /\ UNCHANGED <<model_name, prevent_direct_answer, use_describe_image_prompt,
                   fixed, model, orch, error, rpc, args, output, calls, last, loads, clients>>

----------------------------------------------------------------------------
(* model.run                                                               *)

\* the call model.run(prompt, image): control enters run at self.load()
Call(prompt, image) ==
    /\ rpc' = "load"
    /\ args' = [prompt |-> prompt, image |-> image]
    /\ output' = <<>>
    /\ calls' = 0
    /\ last' = NoOutcome

\* an exception leaves run and evaluate_multi_choice
Raise(type, msg, at) ==
    /\ pc' = "crashed"
    /\ rpc' = "idle"
    /\ error' = [type |-> type, msg |-> msg, at |-> at]

\* load(): when it loads, it reads its source (which may fail) and builds a client
Load(cls, doesLoad) ==
    /\ rpc = "load"
    /\ model.cls = cls
    /\ IF doesLoad
       THEN \E ok \in BOOLEAN :
              IF ok
              THEN /\ loads' = loads + 1
                   /\ clients' = clients + 1
                   /\ model' = [model EXCEPT !.client = clients + 1]
                   /\ rpc' = "loop"
                   /\ UNCHANGED <<pc, error>>
              ELSE /\ Raise("OSError", <<"No such file or directory">>, "load")
                   /\ loads' = loads + 1
                   /\ UNCHANGED <<clients, model>>
       ELSE /\ rpc' = "loop"
            /\ UNCHANGED <<pc, error, loads, clients, model>>
    /\ UNCHANGED <<conf, orch, args, output, calls, last>>

GeminiLoad == Load("GeminiVisionModel", GeminiLoads(model.client))

OpenAILoad == Load("OpenAIVisionModel", OpenAILoads(model.client))

LlavaLoad == Load("LlavaModel", LlavaLoads(model.client))

ClaudeLoad == Load("ClaudeModel", ClaudeLoads(model.client))

\* one pass of the `while not output` loop of a hosted backend
Attempt(cls, o, out) ==
    /\ rpc = "loop"
    /\ model.cls = cls
    /\ output = <<>>
    /\ calls < MaxAttempts
    /\ calls' = calls + 1
    /\ last' = o
    /\ output' = out
    /\ rpc' = IF out = <<>> THEN "loop" ELSE "return"
    /\ UNCHANGED <<conf, orch, pc, model, error, args, loads, clients>>

\* GeminiModel.run, lines 58-73
GeminiRun == \E o \in GeminiOutcomes : Attempt("GeminiVisionModel", o, GeminiAttempt(o))

\* OpenAIModel.run, lines 108-126
OpenAIRun == \E o \in OpenAIOutcomes : Attempt("OpenAIVisionModel", o, OpenAIAttempt(o))

\* ClaudeModel.run, lines 233-250
ClaudeRun ==
    \E o \in ClaudeOutcomes : Attempt("ClaudeModel", o, ClaudeAttempt(o, args.image))

\* LlavaModel.run, lines 184-195: no loop and no try
LlavaRun ==
    /\ rpc = "loop"
    /\ model.cls = "LlavaModel"
    /\ \E o \in LlavaOutcomes :
         /\ calls' = calls + 1
         /\ last' = o
         /\ IF o.exc # <<>>
            THEN /\ Raise("RuntimeError", o.exc, "run")
                 /\ output' = output
            ELSE /\ output' = o.text
                 /\ rpc' = "return"
                 /\ UNCHANGED <<pc, error>>
    /\ UNCHANGED <<conf, orch, model, args, loads, clients>>

\* `return output`, and the assignment sample.raw_output = model.run(...)
Return ==
    /\ rpc = "return"
    /\ rpc' = "idle"
    /\ data' = [data EXCEPT ![idx].raw_output = output]
    /\ log' = Append(log, [prompt |-> args.prompt, image |-> args.image,
                           ret |-> output,
                           blocked |-> Blocked(model.cls, last), pred |-> ""])
    /\ pc' = IF pc = "run1" THEN "parse1" ELSE "parse2"
    /\ args' = NoArgs
    /\ output' = <<>>
    /\ calls' = 0
    /\ last' = NoOutcome
    /\ UNCHANGED <<conf, model, idx, is_correct, score, saved, saves, error, loads,
                   clients, invocations>>

----------------------------------------------------------------------------
(* evaluate_multi_choice, the loop                                         *)

\* lines 52-56
BeginSample ==
    /\ pc = "loop"
    /\ idx < Len(data)
    /\ idx' = NextIndex(idx)
    /\ data' = [data EXCEPT ![idx'].prompt = BasePrompt(data[idx'], prompter)]
    /\ Call(BasePrompt(data[idx'], prompter), data[idx'].image)
    /\ invocations' = 1
    /\ log' = <<>>
    /\ pc' = "run1"
    /\ UNCHANGED <<conf, model, is_correct, score, saved, saves, error, loads, clients>>

\* lines 57 and 63, and the test of line 60
Parse ==
    /\ pc \in {"parse1", "parse2"}
    /\ LET stage == IF pc = "parse1" THEN 1 ELSE 2
           pred == get_answer(data[idx].raw_output, data[idx].options)
           sample == [data[idx] EXCEPT !.pred = pred]
       IN /\ data' = [data EXCEPT ![idx] = sample]
          /\ log' = [log EXCEPT ![Len(log)].pred = pred]
          /\ pc' = AfterParse(stage, sample)
    /\ UNCHANGED <<conf, model, idx, is_correct, score, saved, saves, error, rpc, args,
                   output, calls, last, loads, clients, invocations>>

\* lines 61-62
Extract ==
    /\ pc = "extract"
    /\ data' = [data EXCEPT ![idx].prompt = ExtractPrompt(data[idx])]
    /\ Call(ExtractPrompt(data[idx]), data[idx].image)
    /\ invocations' = invocations + 1
    /\ pc' = "run2"
    /\ UNCHANGED <<conf, model, idx, is_correct, score, saved, saves, error, loads,
                   clients, log>>

\* lines 66-70
Score ==
    /\ pc = "score"
    /\ is_correct' = Append(is_correct, ExactScorer(data[idx]))
    /\ score' = <<Sum(is_correct'), Len(is_correct')>>
    /\ log' = <<>>
    /\ pc' = AfterScore
    /\ UNCHANGED <<conf, model, data, idx, saved, saves, error, rpc, args, output,
                   calls, last, loads, clients, invocations>>

\* line 71: data.save(path_out) rewrites the file with every sample
Save ==
    /\ pc = "save"
    /\ saved' = data
    /\ saves' = saves + 1
    /\ pc' = "loop"
    /\ UNCHANGED <<conf, model, data, idx, is_correct, score, error, rpc, args,
                   output, calls, last, loads, clients, invocations, log>>

\* the loop is exhausted
Finish ==
    /\ pc = "loop"
    /\ idx = Len(data)
    /\ pc' = "done"
    /\ UNCHANGED <<conf, model, orch, error, rpc, args, output, calls, last, loads, clients>>

Next ==
    \/ Setup
    \/ SelectModel
    \/ SetToggles
    \/ BeginSample
    \/ GeminiLoad
    \/ OpenAILoad
    \/ LlavaLoad
    \/ ClaudeLoad
    \/ GeminiRun
    \/ OpenAIRun
    \/ ClaudeRun
    \/ LlavaRun
    \/ Return
    \/ Parse
    \/ Extract
    \/ Score
    \/ Save
    \/ Finish

Spec == Init /\ [][Next]_vars

----------------------------------------------------------------------------
(* evaluate_multi_choice with the toggles passed or not, on one backend    *)

InitToggles == Started({"llava"}, SUBSET ToggleNames)

NextToggles ==
    \/ Setup
    \/ SelectModel
    \/ SetToggles
    \/ BeginSample
    \/ LlavaLoad
    \/ LlavaRun
    \/ Return
    \/ Parse
    \/ Extract
    \/ Score
    \/ Save
    \/ Finish

SpecToggles == InitToggles /\ [][NextToggles]_vars

----------------------------------------------------------------------------
(* EvalModel.resize_image, on its own                                      *)

Max(a, b) == IF a >= b THEN a ELSE b

\* int(x) for round(x) in lines 26-27
Nearest_Floor(n, d) == {n \div d}

\* round(n / d) as lines 26-27 compute it, in floating point: the nearest
\* integer; when n / d is exactly halfway the float product may fall on
\* either side, so either neighbour
Nearest(n, d) ==
    IF 2 * (n % d) < d THEN {n \div d}
    ELSE IF 2 * (n % d) > d THEN {(n \div d) + 1}
    ELSE {n \div d, (n \div d) + 1}

\* the images image.resize((h, w), LANCZOS) can be asked for: a new image
Scaled(img, max) ==
    LET h == img.size[1]
        w == img.size[2]
    IN {[id |-> img.id + 1, size |-> <<rh, rw>>,
         mode |-> IF img.mode = "RGBA" THEN "RGB" ELSE img.mode] :
            rh \in Nearest(h * max, Max(h, w)), rw \in Nearest(w * max, Max(h, w))}

\* line 22 with `<` for `<=`
resize_image_Strict(img, max) ==
    IF img.size[1] < max /\ img.size[2] < max THEN {img} ELSE Scaled(img, max)

\* resize_image, lines 20-32: the images it can return
resize_image(img, max) ==
    IF img.size[1] <= max /\ img.size[2] <= max THEN {img} ELSE Scaled(img, max)

Images ==
    {[id |-> 1, size |-> <<h, w>>, mode |-> m] :
        h \in 1..MaxDim, w \in 1..MaxDim, m \in {"RGB", "RGBA"}}

InitResize ==
    /\ pc = "resize_image"
    /\ src_image \in Images
    /\ max_image_size \in 1..MaxSize
    /\ model_name = ""
    /\ given = {}
    /\ prevent_direct_answer = FALSE
    /\ use_describe_image_prompt = TRUE
    /\ Blank
    /\ rpc = "idle"
    /\ args = NoArgs
    /\ few_shot = NoFewShot

ResizeImage ==
    /\ pc = "resize_image"
    /\ resized' \in resize_image(src_image, max_image_size)
    /\ pc' = "resized"
    /\ UNCHANGED <<model_name, prevent_direct_answer, use_describe_image_prompt,
                   given, prompter, model, orch, error, rpc, args, output, calls,
                   last, loads, clients, src_image, max_image_size, few_shot>>

NextResize == ResizeImage

SpecResize == InitResize /\ [][NextResize]_vars

----------------------------------------------------------------------------
(* model.run called directly, with or without an image (test_model)        *)

InitDirect ==
    /\ pc = "test_model"
    /\ model_name \in ModelNames
    /\ given = {}
    /\ prevent_direct_answer = FALSE
    /\ use_describe_image_prompt = TRUE
    /\ Blank
    /\ rpc = "idle"
    /\ args = NoArgs
    /\ src_image = NoImage
    /\ max_image_size = 0
    /\ few_shot = NoFewShot

\* lines 274-276: select_model, then model.run(prompt, image); image 0 is None
TestModel ==
    /\ pc = "test_model"
    /\ IF select_model(model_name) = "None"
       THEN /\ pc' = "crashed"
            /\ error' = [type |-> "ValueError",
                         msg |-> select_model_error(model_name),
                         at |-> "select_model"]
            /\ UNCHANGED <<model, rpc, args, output, calls, last>>
       ELSE /\ pc' = "run"
            /\ model' = [cls |-> select_model(model_name), client |-> 0]
            /\ \E img \in {0, 1} : Call(<<"describe the image">>, img)
            /\ error' = error
    /\ UNCHANGED <<conf, orch, loads, clients>>

\* line 276: print(model.run(...))
TestReturn ==
    /\ pc = "run"
    /\ rpc = "return"
    /\ pc' = "done"
    /\ rpc' = "idle"
    /\ UNCHANGED <<conf, orch, model, error, args, output, calls, last, loads,
                   clients>>

NextDirect ==
    \/ TestModel
    \/ GeminiLoad
    \/ OpenAILoad
    \/ LlavaLoad
    \/ ClaudeLoad
    \/ GeminiRun
    \/ OpenAIRun
    \/ ClaudeRun
    \/ LlavaRun
    \/ TestReturn

SpecDirect == InitDirect /\ [][NextDirect]_vars

----------------------------------------------------------------------------
(* OpenAIModel.run_few_shot beside OpenAIModel.run, the backend answering  *)
(* both in the same way                                                    *)

\* OpenAIModel.make_messages, lines 94-101: the content of the user message
make_messages(prompt, img, vision) ==
    <<[type |-> "text", value |-> prompt]>>
        \o (IF img # 0 /\ vision
            THEN <<[type |-> "image_url", value |-> <<"data:image/jpeg;base64", img>>]>>
            ELSE <<>>)

\* lines 134-137: the parts of every (prompt, image) pair, in order
RECURSIVE FewShotContent(_, _, _)
FewShotContent(prompts, images, vision) ==
    IF prompts = <<>> THEN <<>>
    ELSE make_messages(Head(prompts), Head(images), vision)
            \o FewShotContent(Tail(prompts), Tail(images), vision)

\* run_few_shot without the finish_reason test of line 147
OpenAIFewShotAttempt_NoFilter(o) ==
    IF o.exc # <<>> THEN FilteredOrRetry(o.exc) ELSE o.text

\* run_few_shot, lines 140-154: `output` after one pass of the loop
OpenAIFewShotAttempt(o) ==
    IF o.exc # <<>> THEN FilteredOrRetry(o.exc)
    ELSE IF o.flag = "content_filter" THEN FilteredOrRetry(<<error_message>>)
    ELSE o.text

Shots ==
    {[prompts |-> [i \in 1..n |-> <<"question", i>>], images |-> im] :
        n \in 1..MaxShots, im \in UNION {[1..k -> {0, 1}] : k \in 1..MaxShots}}

\* both methods are called on an OpenAIVisionModel: run with the first pair,
\* run_few_shot with all of them
InitFewShot ==
    /\ pc = "few_shot"
    /\ model_name = "openai_vision"
    /\ given = {}
    /\ prevent_direct_answer = FALSE
    /\ use_describe_image_prompt = TRUE
    /\ Blank
    /\ src_image = NoImage
    /\ max_image_size = 0
    /\ rpc = "load"
    /\ \E sh \in Shots, vision \in BOOLEAN :
         /\ Len(sh.images) = Len(sh.prompts)
         /\ args = [prompt |-> sh.prompts[1], image |-> sh.images[1]]
         /\ few_shot = [NoFewShot EXCEPT !.rpc = "load", !.prompts = sh.prompts,
                                         !.images = sh.images, !.vision = vision]

\* the object select_model made
FewShotModel ==
    /\ pc = "few_shot"
    /\ model.cls = "None"
    /\ model' = [cls |-> select_model(model_name), client |-> 0]
    /\ UNCHANGED <<pc, conf, orch, error, rpc, args, output, calls, last, loads,
                   clients>>

\* run_few_shot, lines 131-137: load(), then the content of the request
FewShotLoad ==
    /\ pc = "few_shot"
    /\ model.cls = "OpenAIVisionModel"
    /\ few_shot.rpc = "load"
    /\ \E ok \in BOOLEAN :
         IF ok
         THEN /\ loads' = loads + 1
              /\ clients' = clients + 1
              /\ model' = [model EXCEPT !.client = clients + 1]
              /\ few_shot' =
                   [few_shot EXCEPT
                      !.rpc = "loop",
                      !.content = FewShotContent(few_shot.prompts, few_shot.images,
                                                 few_shot.vision)]
              /\ UNCHANGED <<pc, error, rpc>>
         ELSE /\ Raise("OSError", <<"No such file or directory">>, "load")
              /\ loads' = loads + 1
              /\ few_shot' = [few_shot EXCEPT !.rpc = "idle"]
              /\ UNCHANGED <<clients, model>>
    /\ UNCHANGED <<model_name, prevent_direct_answer, use_describe_image_prompt,
                   given, prompter, orch, args, output, calls, last, src_image,
                   max_image_size, resized>>

\* one pass of both loops (lines 108-126 and 139-157) on the same answer
BothAttempt ==
    /\ pc = "few_shot"
    /\ rpc = "loop"
    /\ few_shot.rpc = "loop"
    /\ output = <<>>
    /\ few_shot.output = <<>>
    /\ calls < MaxAttempts
    /\ \E o \in OpenAIOutcomes :
         /\ calls' = calls + 1
         /\ last' = o
         /\ output' = OpenAIAttempt(o)
         /\ rpc' = IF OpenAIAttempt(o) = <<>> THEN "loop" ELSE "return"
         /\ few_shot' =
              [few_shot EXCEPT
                 !.calls = @ + 1,
                 !.output = OpenAIFewShotAttempt(o),
                 !.rpc = IF OpenAIFewShotAttempt(o) = <<>> THEN "loop" ELSE "return"]
    /\ UNCHANGED <<pc, model_name, prevent_direct_answer, use_describe_image_prompt,
                   given, prompter, model, orch, error, args, loads, clients,
                   src_image, max_image_size, resized>>

NextFewShot ==
    \/ FewShotModel
    \/ OpenAILoad
    \/ FewShotLoad
    \/ BothAttempt

SpecFewShot == InitFewShot /\ [][NextFewShot]_vars

----------------------------------------------------------------------------
(* Properties                                                              *)

Hosted(cls) == cls \in {"GeminiVisionModel", "OpenAIVisionModel", "ClaudeModel"}

\* the backend answered the latest call of the run in progress with o
Answered(o) == calls > 0 /\ last = o

\* a response with non-empty text that no filter blocked
Success(cls, o) == o.exc = <<>> /\ o.parts /\ o.text # <<>> /\ ~Blocked(cls, o)

\* a response that carries no text, and that no filter blocked
Empty(cls, o) == o.exc = <<>> /\ ~Blocked(cls, o) /\ (~o.parts \/ o.text = <<>>)

\* a transient failure: an exception of the client call or an empty response
Transient(cls, o) == ~Blocked(cls, o) /\ (o.exc # <<>> \/ Empty(cls, o))

\* the Gemini response without parts
NoParts(cls, o) == cls = "GeminiVisionModel" /\ o.exc = <<>> /\ ~o.parts

CurrentOptions == SeqToSet(data[idx].options)

\* C1: whenever run returns, for any backend, the text it returns is not
\* the empty string.
C1_NeverReturnsEmpty == rpc = "return" => output # <<>>

\* C2 as stated: a hosted run that returns without a filter signal returns
\* the text of a successful non-empty response, whatever failures came first.
C2_ReturnsTheSuccess ==
    (rpc = "return" /\ Hosted(model.cls) /\ ~Blocked(model.cls, last))
        => (Success(model.cls, last) /\ output = last.text)

\* C2 amended: after a transient failure a hosted run is still in its loop
\* with nothing to return (so any number of failures returns no value), and
\* a run that returns without a filter signal returns the text of the
\* successful response that ended the failures; the one exception is a
\* Gemini response without parts, which ends the run with the fixed text
\* "Empty response.parts from gemini".
C2_RetriesUntilSuccess ==
    Hosted(model.cls) =>
        /\ (calls > 0 /\ Transient(model.cls, last) /\ ~NoParts(model.cls, last))
               => (rpc = "loop" /\ output = <<>>)
        /\ (rpc = "return" /\ ~Blocked(model.cls, last))
               => IF NoParts(model.cls, last)
                  THEN output = EmptyPartsMessage
                  ELSE Success(model.cls, last) /\ output = last.text

\* a hosted run returns a success that came after at least one failure
C2_Witness ==
    /\ rpc = "return"
    /\ Hosted(model.cls)
    /\ calls >= 2
    /\ Success(model.cls, last)

\* C3 as stated: every response a backend's filter blocked makes run return
\* the same string, at once.
C3_FixedSentinel ==
    (Hosted(model.cls) /\ calls > 0 /\ Blocked(model.cls, last))
        => /\ rpc = "return"
           /\ \A i \in DOMAIN log : log[i].blocked => log[i].ret = output

\* C3 amended: a filter signal makes run return on that attempt, with no
\* further backend call and a non-empty text: OpenAI and Claude return the
\* fixed string "The response was filtered"; Gemini returns the dump of the
\* response, which names the block_reason and so varies with the response.
C3_BlockedReturnsAtOnce ==
    (Hosted(model.cls) /\ calls > 0 /\ Blocked(model.cls, last))
        => /\ rpc = "return"
           /\ output # <<>>
           /\ IF model.cls = "GeminiVisionModel"
              THEN Contains(output, "block_reason") /\ Contains(output, last.flag)
              ELSE output = <<error_message>>

\* Gemini returns on a second block reason after an earlier blocked response
C3_Witness ==
    /\ rpc = "return"
    /\ model.cls = "GeminiVisionModel"
    /\ Blocked(model.cls, last)
    /\ last.flag = "OTHER"
    /\ \E i \in DOMAIN log : log[i].blocked

\* C4: model.run is invoked at most twice for a sample.
C4_AtMostTwoInvocations == invocations <= 2

\* a sample is scored after two invocations, its prediction still invalid
C4_Witness ==
    /\ pc = "score"
    /\ invocations = 2
    /\ data[idx].pred \notin CurrentOptions

\* C5: the first parse decides: a valid first label is the prediction after
\* exactly one invocation; otherwise exactly one more invocation is made,
\* with the extraction prompt built from the first raw output and the same
\* image, and its parse is the prediction, valid or not.
C5_FirstParseDecides ==
    /\ pc \in {"extract", "run2", "parse2"} => log[1].pred \notin CurrentOptions
    /\ pc = "score" =>
         IF log[1].pred \in CurrentOptions
         THEN /\ invocations = 1
              /\ Len(log) = 1
              /\ data[idx].pred = log[1].pred
         ELSE /\ invocations = 2
              /\ Len(log) = 2
              /\ log[2].prompt = ExtractPrompt([raw_output |-> log[1].ret])
              /\ log[2].image = log[1].image
              /\ data[idx].pred = log[2].pred

\* the extraction stage recovers a valid label
C5_Witness ==
    /\ pc = "score"
    /\ Len(log) = 2
    /\ log[2].pred \in CurrentOptions

\* C6: a sample whose final prediction is not one of its options is scored 0.
C6_InvalidScoresZero ==
    \A i \in DOMAIN is_correct :
        data[i].pred \notin SeqToSet(data[i].options) => is_correct[i] = 0

\* a sample was scored with an invalid prediction
C6_Witness ==
    \E i \in DOMAIN is_correct : data[i].pred \notin SeqToSet(data[i].options)

\* C7: the program ends by an exception only at startup: in select_model or
\* in the first read of the credentials.
C7_FailsOnlyAtStartup ==
    pc = "crashed" =>
        \/ error.at = "select_model"
        \/ error.at = "load" /\ loads = 1

\* C8 as stated: an empty response makes a hosted run retry; it is not
\* turned into a return value.
C8_EmptyIsRetried ==
    (Hosted(model.cls) /\ calls > 0 /\ Empty(model.cls, last))
        => (rpc = "loop" /\ output = <<>>)

\* C8 amended: an empty response makes a hosted run retry, except a Gemini
\* response without parts, which run returns to its caller as the text
\* "Empty response.parts from gemini".
C8_EmptyIsRetriedButNoParts ==
    (Hosted(model.cls) /\ calls > 0 /\ Empty(model.cls, last))
        => IF NoParts(model.cls, last)
           THEN rpc = "return" /\ output = EmptyPartsMessage
           ELSE rpc = "loop" /\ output = <<>>

\* Gemini is about to return after a response without parts
C8_Witness ==
    /\ rpc = "return"
    /\ calls > 0
    /\ NoParts(model.cls, last)
    /\ ~Blocked(model.cls, last)

\* C9: an unregistered model name ends the program in select_model with an
\* error naming it and listing the registered names; no backend is chosen
\* and no sample has been prompted, scored or saved.
C9_UnknownNameFailsFast ==
    (model_name \notin SeqToSet(model_map_keys) /\ pc \notin {"start", "select_model"})
        => /\ pc = "crashed"
           /\ error.type = "ValueError"
           /\ Contains(error.msg, model_name)
           /\ \A k \in SeqToSet(model_map_keys) : Contains(error.msg, k)
           /\ model.cls = "None"
           /\ idx = 0 /\ invocations = 0
           /\ \A i \in DOMAIN data : data[i].prompt = <<>> /\ data[i].pred = ""
           /\ is_correct = <<>>
           /\ saved = <<>>

\* select_model has refused the name
C9_Witness == pc = "crashed" /\ error.at = "select_model" /\ Len(data) > 0

\* C10: the credential source is read and the client built at most once.
C10_LoadedOnce == loads <= 1 /\ clients <= 1

\* C11 as stated: called without either toggle, both toggles of the
\* prompter are on while prompts are built; a toggle is off only when the
\* caller explicitly passed false for it.
C11_TogglesOnUnlessDisabled ==
    idx >= 1 =>
        /\ ~prompter.prevent_direct_answer
               => ("prevent_direct_answer" \in given /\ ~prevent_direct_answer)
        /\ ~prompter.use_describe_image_prompt
               => ("use_describe_image_prompt" \in given /\ ~use_describe_image_prompt)

\* C11 amended: only the describe-image toggle defaults on.  While prompts
\* are built the prevent-direct-answer toggle is on exactly when the caller
\* explicitly passed true for it (it is off when the caller set nothing),
\* and the describe-image toggle is off exactly when the caller explicitly
\* passed false for it.
C11_OnlyDescribeDefaultsOn ==
    idx >= 1 =>
        /\ prompter.prevent_direct_answer
               = ("prevent_direct_answer" \in given /\ prevent_direct_answer)
        /\ prompter.use_describe_image_prompt
               = ~("use_describe_image_prompt" \in given /\ ~use_describe_image_prompt)

\* a prompt was built in a call that set neither toggle
C11_Witness ==
    /\ idx >= 1
    /\ given = {}
    /\ data[1].prompt # <<>>
    /\ ~prompter.prevent_direct_answer
    /\ prompter.use_describe_image_prompt

\* the samples scored so far
Scored == IF pc \in {"save", "loop", "done"} \/ idx = 0 THEN idx ELSE idx - 1

\* C12: after the k-th sample is scored, is_correct holds exactly k values,
\* one 0/1 value per sample in dataset order, and the running accuracy is
\* the number of 1s among them over k.
C12_RunningAccuracy ==
    /\ Len(is_correct) = Scored
    /\ \A k \in DOMAIN is_correct :
         is_correct[k] = (IF data[k].pred = data[k].answer THEN 1 ELSE 0)
    /\ Len(is_correct) >= 1 =>
         score = <<Cardinality({k \in DOMAIN is_correct : is_correct[k] = 1}),
                   Len(is_correct)>>

\* outcomes [1, 0]: the running accuracy is 1/2
C12_Witness == is_correct = <<1, 0>> /\ score = <<1, 2>>

\* C13: data.save runs exactly once after each sample is scored, before the
\* next sample's first backend invocation; the last saved file holds the
\* prediction of every scored sample but at most the one in flight.
C13_SavedAfterEachSample ==
    /\ saves = (IF pc = "save" THEN Len(is_correct) - 1 ELSE Len(is_correct))
    /\ (pc = "run1" /\ idx >= 1) => saves = idx - 1
    /\ \A i \in 1..saves :
         /\ saved[i].pred = data[i].pred
         /\ saved[i].raw_output = data[i].raw_output

\* the second sample's first invocation runs with the first sample saved
C13_Witness ==
    /\ pc = "run1"
    /\ idx = 2
    /\ calls = 1
    /\ saves = 1
    /\ saved[1].pred = "B"

\* C17: the loop goes through the samples one by one in dataset order, and
\* no step changes a scored sample or its correctness value.
C17_ScoredSamplesFrozen ==
    [][/\ idx' \in {idx, idx + 1}
       /\ idx' = idx + 1 => pc = "loop"
       /\ \A i \in DOMAIN is_correct :
            /\ data'[i] = data[i]
            /\ is_correct'[i] = is_correct[i]]_vars

\* the second sample is in its extraction stage, the first one scored
C17_Witness ==
    /\ idx = 2
    /\ Len(is_correct) = 1
    /\ pc = "parse2"

\* resize_image was given an image with a dimension over max_image_size
Oversized == src_image.size[1] > max_image_size \/ src_image.size[2] > max_image_size

\* r is s * max_image_size / big rounded to a nearest integer
NearestScaled(r, s, big) ==
    /\ 2 * r * big <= 2 * s * max_image_size + big
    /\ 2 * s * max_image_size <= 2 * r * big + big

\* C14: an image with a dimension over max_image_size comes back with its
\* larger dimension equal to max_image_size and its smaller one scaled by
\* max_image_size / max(width, height) and rounded to the nearest integer.
C14_ScaledToMax ==
    (pc = "resized" /\ Oversized) =>
        LET big == Max(src_image.size[1], src_image.size[2])
        IN /\ Max(resized.size[1], resized.size[2]) = max_image_size
           /\ \A i \in 1..2 :
                /\ src_image.size[i] = big => resized.size[i] = max_image_size
                /\ NearestScaled(resized.size[i], src_image.size[i], big)

\* a 5 x 3 image under max_image_size 4 comes back 4 x 2
C14_Witness ==
    /\ pc = "resized"
    /\ src_image.size = <<5, 3>>
    /\ max_image_size = 4
    /\ resized.size = <<4, 2>>

\* C15: an image with both dimensions at most max_image_size comes back as
\* the very same image: same object, same size, same mode.
C15_SmallImageUntouched ==
    (pc = "resized" /\ ~Oversized) => resized = src_image

\* an RGBA image exactly max_image_size wide and high is returned as it is
C15_Witness ==
    /\ pc = "resized"
    /\ src_image.size = <<max_image_size, max_image_size>>
    /\ src_image.mode = "RGBA"
    /\ resized = src_image

\* C19: both dimensions of the image resize_image returns are in
\* 1..max_image_size.
C19_NoZeroDimension ==
    pc = "resized" =>
        \A i \in 1..2 : resized.size[i] >= 1 /\ resized.size[i] <= max_image_size

\* C16: answered in the same way, OpenAIModel.run_few_shot and
\* OpenAIModel.run make the same number of backend calls, return the same
\* value, and neither returns the empty string.
C16_SameRetryContract ==
    (pc = "few_shot" /\ rpc # "load" /\ few_shot.rpc # "load") =>
        /\ few_shot.rpc = rpc
        /\ few_shot.calls = calls
        /\ few_shot.output = output
        /\ rpc = "return" => (output # <<>> /\ few_shot.output # <<>>)
        /\ (calls > 0 /\ Blocked(model.cls, last)) => few_shot.output = <<error_message>>

\* both return the sentinel on the second call, run_few_shot given two pairs
C16_Witness ==
    /\ pc = "few_shot"
    /\ rpc = "return"
    /\ few_shot.rpc = "return"
    /\ calls = 2
    /\ Len(few_shot.prompts) = 2
    /\ Len(few_shot.content) >= 3
    /\ few_shot.output = <<error_message>>

\* C18: a hosted run called without an image returns the text of the
\* backend's successful answer.
C18_RunsWithoutImage ==
    (pc = "run" /\ Hosted(model.cls) /\ args.image = 0
        /\ calls > 0 /\ Success(model.cls, last))
        => (rpc = "return" /\ output = last.text)

====
